---- MODULE Spec2Model ----
(***************************************************************************)
(* Index storage (src/src/db.rs, DBStore over RocksDB) and the tracker's   *)
(* writer/reader discipline (src/src/tracker.rs) of electrs.               *)
(*                                                                         *)
(* Keys are byte strings, modelled as sequences of small naturals; a       *)
(* column family is a map from keys to values.  RocksDB keeps, per column  *)
(* family, the SST files (durable), the memtable (lost on a crash) and the *)
(* part of the memtable that the write-ahead log can replay (durable).     *)
(***************************************************************************)
EXTENDS Naturals, Integers, Sequences, FiniteSets, TLC

\* ------------------------------------------------------------------ bounds
\* Bytes range over 0 .. ByteRange-1.
ByteRange == 2
\* Heights of the blocks the upstream node can report: 0 .. MaxHeight.
MaxHeight == 2
\* Bytes of a key prefix (the fixed-prefix extractor of the store).
PrefixLen == 2
\* Blocks Index::sync puts into one WriteBatch.
ChunkSize == 2

\* --------------------------------------------------------------- constants
CONFIG_CF == "config"
HEADERS_CF == "headers"
TXID_CF == "txid"
FUNDING_CF == "funding"
SPENDING_CF == "spending"

\* b"C" and b"T"
CONFIG_KEY == <<67>>
TIP_KEY == <<84>>

CURRENT_FORMAT == 2

\* let cfs = vec![CONFIG_CF, HEADERS_CF, TXID_CF, FUNDING_CF, SPENDING_CF];
cfs == <<CONFIG_CF, HEADERS_CF, TXID_CF, FUNDING_CF, SPENDING_CF>>

CFSet == {cfs[i] : i \in 1..Len(cfs)}

\* Option<T>: None, or Some(x)
None == <<>>
Some(x) == <<x>>

\* b"": every data row is stored with an empty value
EmptyValue == <<>>

\* ------------------------------------------------------------ byte strings
\* RocksDB's default comparator: bytewise lexicographic order.
RECURSIVE BytewiseLess(_, _)
BytewiseLess(a, b) ==
    IF a = <<>> THEN b # <<>>
    ELSE IF b = <<>> THEN FALSE
    ELSE IF a[1] # b[1] THEN a[1] < b[1]
    ELSE BytewiseLess(Tail(a), Tail(b))

\* <[u8]>::starts_with
starts_with(key, prefix) ==
    /\ Len(prefix) <= Len(key)
    /\ SubSeq(key, 1, Len(prefix)) = prefix

\* The keys of a column family in the order an iterator visits them.
RECURSIVE SortedKeys(_)
SortedKeys(S) ==
    IF S = {} THEN <<>>
    ELSE LET m == CHOOSE x \in S : \A y \in S : x = y \/ BytewiseLess(x, y)
         IN  <<m>> \o SortedKeys(S \ {m})

\* Vec<Row>::sort_unstable of WriteBatch::sort: ascending byte order,
\* duplicates kept.
RECURSIVE SortRows(_)
SortRows(rows) ==
    IF rows = <<>> THEN <<>>
    ELSE LET i == CHOOSE i \in 1..Len(rows) :
                    \A j \in 1..Len(rows) : ~BytewiseLess(rows[j], rows[i])
             rest == [j \in 1..(Len(rows) - 1) |->
                        IF j < i THEN rows[j] ELSE rows[j + 1]]
         IN  <<rows[i]>> \o SortRows(rest)

Range(s) == {s[i] : i \in 1..Len(s)}

\* --------------------------------------------------------- key-value maps
EmptyMap == [k \in {} |-> EmptyValue]

\* put_cf as it would be if it were merge_cf with an appending operator
Put_appending(m, k, v) ==
    [x \in (DOMAIN m) \cup {k} |->
        IF x = k THEN (IF k \in DOMAIN m THEN m[k] \o v ELSE v) ELSE m[x]]

Put(m, k, v) == [x \in (DOMAIN m) \cup {k} |-> IF x = k THEN v ELSE m[x]]

\* `over` shadows `under`
Overlay(under, over) ==
    [x \in (DOMAIN under) \cup (DOMAIN over) |->
        IF x \in DOMAIN over THEN over[x] ELSE under[x]]

EmptyLayer == [cf \in CFSet |-> EmptyMap]

\* ------------------------------------------------------------------- state
VARIABLES
    db,               \* rocksdb::DB: [sst, mem, wal], each a map per column family,
                      \* and default_cf, the keys of the anonymous column family
    storeOpen,        \* a DBStore value exists (the process is up)
    bulk_import,      \* DBStore.bulk_import
    auto_compactions, \* RocksDB option disable_auto_compactions = "false"
    flush,            \* position of the running flush(): [pc, i, config]
    lastWrite,        \* the last write() that returned: [batch, opts, compacted, count,
                      \*  again: the write() before it was of the same batch]
    committed,        \* per family, the rows found at open() or written since
    hist,             \* [opened_compacted: config.compacted as open() read it,
                      \*  flushed: some flush() has returned]
    promised,         \* what was committed once a flush() had returned: [rows, tip, writes]
    chain,            \* Index's in-memory Chain: the blocks by height
    node,             \* the upstream node's chain: [height, fork]
    idx,              \* position of Index::sync: [pc, todo]
    reader,           \* the chain a reader observed, before its prefix scans
    scan,             \* a ScanIterator and what it has returned: [cf, prefix, iter, done, out, ended]
    mempool,          \* Tracker.mempool: the txids of the last mempool snapshot
    tx_cache,         \* Tracker.tx_cache: the txids of the cached transactions
    status,           \* the Status a client holds, None before it has one
    call,             \* the tracker call a client thread is in: [op, pc, ...]
    ret               \* what the last call gave back, None while a call is running

storeVars == <<db, storeOpen, bulk_import, auto_compactions, flush, lastWrite, committed, hist, promised>>
indexVars == <<chain, node, idx, reader>>
trackerVars == <<mempool, tx_cache, status, call, ret>>
vars == <<db, storeOpen, bulk_import, auto_compactions, flush, lastWrite, committed, hist, promised,
          chain, node, idx, reader, scan, mempool, tx_cache, status, call, ret>>

\* --------------------------------------------------------- RocksDB semantics
\* What a read of column family cf sees: the memtable over the SST files.
Visible(d, cf) == Overlay(d.sst[cf], d.mem[cf])

\* What a reopen after a crash finds: the SST files plus the replayed log.
Recovered(d, cf) == Overlay(d.sst[cf], d.wal[cf])

\* One rocksdb::WriteBatch applied, in order, to a layer.
RECURSIVE ApplyPuts(_, _)
ApplyPuts(layer, puts) ==
    IF puts = <<>> THEN layer
    ELSE LET p == Head(puts)
         IN  ApplyPuts([layer EXCEPT ![p.cf] = Put(@, p.key, p.value)], Tail(puts))

\* DB::write_opt: the batch reaches every memtable at once; it reaches the
\* write-ahead log too unless the log is disabled, and the log is on disk
\* once the write returns only if the write is synchronous.
write_opt(d, db_batch, opts) ==
    [d EXCEPT !.mem = ApplyPuts(@, db_batch),
              !.wal = IF ~opts.disable_wal /\ opts.sync
                      THEN ApplyPuts(@, db_batch) ELSE @]

\* DB::flush_cf: the memtable of one column family becomes an SST file.
flush_cf(d, cf) ==
    [d EXCEPT !.sst[cf] = Overlay(@, d.mem[cf]),
              !.mem[cf] = EmptyMap,
              !.wal[cf] = EmptyMap]

\* A crash loses the memtables; the reopen replays the log into them.
crash_recover(d) == [d EXCEPT !.mem = d.wal]

\* ------------------------------------------------------------------ Config
\* serde_json::to_vec(&config) / serde_json::from_slice(&value)
to_vec(config) == <<"compacted", config.compacted, "format", config.format>>
from_slice(value) == [compacted |-> value[2], format |-> value[4]]

get_config(d) ==
    LET m == Visible(d, CONFIG_CF)
    IN  IF CONFIG_KEY \in DOMAIN m
        THEN from_slice(m[CONFIG_KEY])
        ELSE [compacted |-> FALSE, format |-> CURRENT_FORMAT]

set_config(d, config) ==
    write_opt(d, <<[cf |-> CONFIG_CF, key |-> CONFIG_KEY, value |-> to_vec(config)]>>,
              [sync |-> TRUE, disable_wal |-> FALSE])

\* The config a reopen after a crash would read.
PersistedConfig == get_config(crash_recover(db))

\* ----------------------------------------------------------- DBStore reads
\* read_headers() as it would be without its filter
read_headers_unfiltered(d) == SortedKeys(DOMAIN Visible(d, HEADERS_CF))

\* DBStore::read_headers: full scan of the headers family, TIP_KEY skipped.
read_headers(d) ==
    SelectSeq(SortedKeys(DOMAIN Visible(d, HEADERS_CF)), LAMBDA key : key # TIP_KEY)

\* DBStore::get_tip
get_tip(d) ==
    LET m == Visible(d, HEADERS_CF)
    IN  IF TIP_KEY \in DOMAIN m THEN Some(m[TIP_KEY]) ELSE None

\* ----------------------------------------------------------- DBStore::write
DataCFs == {HEADERS_CF, TXID_CF, FUNDING_CF, SPENDING_CF}

\* The rows of a WriteBatch, per column family.
BatchRows(batch, cf) ==
    IF cf = HEADERS_CF THEN Range(batch.header_rows)
    ELSE IF cf = TXID_CF THEN Range(batch.txid_rows)
    ELSE IF cf = FUNDING_CF THEN Range(batch.funding_rows)
    ELSE IF cf = SPENDING_CF THEN Range(batch.spending_rows)
    ELSE {}

NoRows == [cf \in DataCFs |-> {}]

\* The puts of one rocksdb::WriteBatch, in the order write() issues them.
PutRows(cf, rows) == [i \in 1..Len(rows) |-> [cf |-> cf, key |-> rows[i], value |-> EmptyValue]]

\* write() as it would be with the txid rows put into the funding family
db_batch_of_txid_as_funding(batch) ==
    PutRows(FUNDING_CF, batch.funding_rows)
    \o PutRows(SPENDING_CF, batch.spending_rows)
    \o PutRows(FUNDING_CF, batch.txid_rows)
    \o PutRows(HEADERS_CF, batch.header_rows)
    \o <<[cf |-> HEADERS_CF, key |-> TIP_KEY, value |-> batch.tip_row]>>

\* write() as it would be without its last put, the tip singleton
db_batch_of_no_tip(batch) ==
    PutRows(FUNDING_CF, batch.funding_rows)
    \o PutRows(SPENDING_CF, batch.spending_rows)
    \o PutRows(TXID_CF, batch.txid_rows)
    \o PutRows(HEADERS_CF, batch.header_rows)

db_batch_of(batch) ==
    PutRows(FUNDING_CF, batch.funding_rows)
    \o PutRows(SPENDING_CF, batch.spending_rows)
    \o PutRows(TXID_CF, batch.txid_rows)
    \o PutRows(HEADERS_CF, batch.header_rows)
    \o <<[cf |-> HEADERS_CF, key |-> TIP_KEY, value |-> batch.tip_row]>>

\* write() as it would be if it never used the write-ahead log
write_options_never_wal(bulk) == [sync |-> FALSE, disable_wal |-> TRUE]

\* write() as it would be without opts.set_sync
write_options_no_sync(bulk) == [sync |-> FALSE, disable_wal |-> bulk]

\* write() as it would be with the two options swapped
write_options_swapped(bulk) == [sync |-> bulk, disable_wal |-> ~bulk]

\* opts.set_sync(!bulk_import); opts.disable_wal(bulk_import);
write_options(bulk) == [sync |-> ~bulk, disable_wal |-> bulk]

total_rows_count(batch) ==
    Len(batch.funding_rows) + Len(batch.spending_rows)
    + Len(batch.txid_rows) + Len(batch.header_rows)

write(batch) ==
    /\ storeOpen
    /\ flush.pc = "idle"
    /\ LET opts == write_options(bulk_import)
       IN  /\ db' = write_opt(db, db_batch_of(batch), opts)
           /\ lastWrite' = Some([batch |-> batch, opts |-> opts,
                                 opened_compacted |-> hist.opened_compacted,
                                 flushed |-> hist.flushed,
                                 again |-> lastWrite # None /\ lastWrite[1].batch = batch,
                                 count |-> total_rows_count(batch)])
    /\ committed' = [cf \in DataCFs |-> committed[cf] \cup BatchRows(batch, cf)]
    /\ promised' = IF hist.flushed
                   THEN [rows |-> [cf \in DataCFs |-> promised.rows[cf] \cup BatchRows(batch, cf)],
                         tip |-> Some(batch.tip_row),
                         writes |-> TRUE]
                   ELSE promised
    /\ UNCHANGED <<storeOpen, bulk_import, auto_compactions, flush, hist>>

\* ------------------------------------------------ DBStore::start_compactions
\* self.bulk_import.store(false); disable_auto_compactions = "false" on every family
\* start_compactions() as it would be without the store to bulk_import
start_compactions_keeps_bulk == [bulk_import |-> TRUE, auto_compactions |-> TRUE]

start_compactions == [bulk_import |-> FALSE, auto_compactions |-> TRUE]

\* ------------------------------------------------------------ DBStore::open
FlushIdle == [pc |-> "idle", i |-> 0, config |-> None, compacted |-> {}]

\* db.iterator(IteratorMode::Start).next().is_some(): the anonymous column
\* family, which the old electrs layout used, holds a row.
is_old(d) == d.default_cf # {}

\* The check of open() as it would be without the look at the old layout
unsupported_format_only(config, old) == config.format < CURRENT_FORMAT

\* if config.format < CURRENT_FORMAT || is_old { bail!(...) }
unsupported(config, old) == config.format < CURRENT_FORMAT \/ old

\* open() as it would be without its call of start_compactions()
open_without_start_compactions ==
    /\ ~storeOpen
    /\ LET config == get_config(db)
       IN  /\ ~unsupported(config, is_old(db))
           /\ storeOpen' = TRUE
           /\ bulk_import' = TRUE
           /\ auto_compactions' = FALSE
           /\ db' = set_config(db, config)
    /\ flush' = FlushIdle
    /\ lastWrite' = None
    /\ committed' = [cf \in DataCFs |-> DOMAIN Visible(db, cf) \ {TIP_KEY}]
    /\ hist' = [hist EXCEPT !.opened_compacted = get_config(db).compacted]
    /\ UNCHANGED promised

open ==
    /\ ~storeOpen
    /\ LET config == get_config(db)
       IN  /\ ~unsupported(config, is_old(db))
           /\ storeOpen' = TRUE
           /\ bulk_import' = IF config.compacted THEN start_compactions.bulk_import ELSE TRUE
           /\ auto_compactions' = IF config.compacted THEN start_compactions.auto_compactions ELSE FALSE
           /\ db' = set_config(db, config)
    /\ flush' = FlushIdle
    /\ lastWrite' = None
    /\ committed' = [cf \in DataCFs |-> DOMAIN Visible(db, cf) \ {TIP_KEY}]
    /\ hist' = [hist EXCEPT !.opened_compacted = get_config(db).compacted]
    /\ UNCHANGED promised

\* ----------------------------------------------------------- DBStore::flush
\* let mut config = self.get_config();
flush_begin ==
    /\ storeOpen
    /\ flush.pc = "idle"
    /\ flush' = [pc |-> "flush_cf", i |-> 1, config |-> Some(get_config(db)), compacted |-> {}]
    /\ UNCHANGED <<db, storeOpen, bulk_import, auto_compactions, lastWrite, committed, hist, promised>>

\* for name in &self.cfs { self.db.flush_cf(cf) }
\* flush() returns: the history notes what is committed at that point.
flush_returns ==
    /\ hist' = [hist EXCEPT !.flushed = TRUE]
    /\ promised' = IF hist.flushed THEN promised
                   ELSE [rows |-> committed, tip |-> get_tip(db), writes |-> FALSE]

\* flush() as it would be if it compacted whatever the config says
flush_flush_cf_always_compacts ==
    /\ storeOpen
    /\ flush.pc = "flush_cf"
    /\ db' = flush_cf(db, cfs[flush.i])
    /\ IF flush.i < Len(cfs)
       THEN flush' = [flush EXCEPT !.i = @ + 1] /\ UNCHANGED <<hist, promised>>
       ELSE IF TRUE
            THEN /\ flush' = [flush EXCEPT !.pc = "compact_range_cf", !.i = 1]
                 /\ UNCHANGED <<hist, promised>>
            ELSE flush' = FlushIdle /\ flush_returns
    /\ UNCHANGED <<storeOpen, bulk_import, auto_compactions, lastWrite, committed>>

flush_flush_cf ==
    /\ storeOpen
    /\ flush.pc = "flush_cf"
    /\ db' = flush_cf(db, cfs[flush.i])
    /\ IF flush.i < Len(cfs)
       THEN flush' = [flush EXCEPT !.i = @ + 1] /\ UNCHANGED <<hist, promised>>
       ELSE IF ~flush.config[1].compacted
            THEN /\ flush' = [flush EXCEPT !.pc = "compact_range_cf", !.i = 1]
                 /\ UNCHANGED <<hist, promised>>
            ELSE flush' = FlushIdle /\ flush_returns
    /\ UNCHANGED <<storeOpen, bulk_import, auto_compactions, lastWrite, committed>>

\* for name in &self.cfs { self.db.compact_range_cf(cf, None, None) }: the
\* SST files of the family are rewritten, their content is unchanged.
flush_compact_range_cf ==
    /\ storeOpen
    /\ flush.pc = "compact_range_cf"
    /\ flush' = IF flush.i < Len(cfs)
                THEN [flush EXCEPT !.i = @ + 1, !.compacted = @ \cup {cfs[flush.i]}]
                ELSE [flush EXCEPT !.pc = "set_config", !.i = 0,
                                   !.compacted = @ \cup {cfs[flush.i]}]
    /\ UNCHANGED <<db, storeOpen, bulk_import, auto_compactions, lastWrite, committed,
                   hist, promised>>

\* config.compacted = true; self.set_config(config);
flush_set_config ==
    /\ storeOpen
    /\ flush.pc = "set_config"
    /\ db' = set_config(db, [flush.config[1] EXCEPT !.compacted = TRUE])
    /\ flush' = [flush EXCEPT !.pc = "start_compactions"]
    /\ UNCHANGED <<storeOpen, bulk_import, auto_compactions, lastWrite, committed,
                   hist, promised>>

\* self.start_compactions();
flush_start_compactions ==
    /\ storeOpen
    /\ flush.pc = "start_compactions"
    /\ bulk_import' = start_compactions.bulk_import
    /\ auto_compactions' = start_compactions.auto_compactions
    /\ flush' = FlushIdle
    /\ flush_returns
    /\ UNCHANGED <<db, storeOpen, lastWrite, committed>>

flush_step ==
    \/ flush_flush_cf
    \/ flush_compact_range_cf
    \/ flush_set_config
    \/ flush_start_compactions

\* ------------------------------------------------------------- environment
\* RocksDB flushes the memtable of a column family on its own when the write
\* buffer (256 MiB) fills up.
background_flush(cf) ==
    /\ storeOpen
    /\ DOMAIN db.mem[cf] # {}
    /\ db' = flush_cf(db, cf)
    /\ UNCHANGED <<storeOpen, bulk_import, auto_compactions, flush, lastWrite, committed, hist, promised>>

\* The process dies: the DBStore value and the memtables are gone.
crash ==
    /\ storeOpen
    /\ storeOpen' = FALSE
    /\ db' = crash_recover(db)
    /\ bulk_import' = TRUE
    /\ auto_compactions' = FALSE
    /\ flush' = FlushIdle
    /\ lastWrite' = None
    /\ committed' = NoRows
    /\ UNCHANGED <<hist, promised>>

\* ------------------------------------------------------------- row codec
\* height (u32 BE): big-endian digits, most significant first.
HeightBE(h) == <<(h \div ByteRange) % ByteRange, h % ByteRange>>

\* The height a row key ends with, big-endian.
HeightOf(key) == key[PrefixLen + 1] * ByteRange + key[PrefixLen + 2]

Pad(p) == p \o [i \in 1..(PrefixLen - Len(p)) |-> 0]

Forks == {"A", "B"}
Blocks == [fork : Forks, height : 0..MaxHeight]

ForkByte(b) == IF b.fork = "A" THEN 0 ELSE 1

\* The serialized header of a block.
HeaderBytes(b) == <<ForkByte(b)>> \o HeightBE(b.height)

\* headers: block_header_bytes || height
HeaderRow(b) == HeaderBytes(b) \o HeightBE(b.height)

\* txid: txid_prefix || height.  Each block holds one transaction; the
\* transactions at heights h and h + ByteRange of a chain share a prefix.
TxidPrefix(b) == Pad(<<ForkByte(b), b.height % ByteRange>>)
TxidRow(b) == TxidPrefix(b) \o HeightBE(b.height)

\* funding: scripthash_prefix || height.  Every transaction above the
\* genesis block pays the same script.
ScriptHashPrefix == Pad(<<0, 1>>)
FundingRows(b) == IF b.height >= 1 THEN <<ScriptHashPrefix \o HeightBE(b.height)>> ELSE <<>>

\* spending: outpoint_prefix || height.  The transaction at height h >= 2
\* spends the output created at height h - 1.
OutpointPrefix(b) == Pad(<<1, ForkByte(b)>>)
SpendingRows(b) == IF b.height >= 2 THEN <<OutpointPrefix(b) \o HeightBE(b.height)>> ELSE <<>>

\* WriteBatch::sort
sort(batch) ==
    [batch EXCEPT !.header_rows = SortRows(@),
                  !.funding_rows = SortRows(@),
                  !.spending_rows = SortRows(@),
                  !.txid_rows = SortRows(@)]

\* WriteBatch::default()
DefaultBatch ==
    [tip_row |-> <<>>, header_rows |-> <<>>, funding_rows |-> <<>>,
     spending_rows |-> <<>>, txid_rows |-> <<>>]

\* The rows of the blocks of one chunk; tip_row is the last block's header.
RECURSIVE IndexBlocks(_, _)
IndexBlocks(batch, blocks) ==
    IF blocks = <<>> THEN batch
    ELSE LET b == Head(blocks)
         IN  IndexBlocks([tip_row |-> HeaderBytes(b),
                          header_rows |-> batch.header_rows \o <<HeaderRow(b)>>,
                          funding_rows |-> batch.funding_rows \o FundingRows(b),
                          spending_rows |-> batch.spending_rows \o SpendingRows(b),
                          txid_rows |-> batch.txid_rows \o <<TxidRow(b)>>],
                         Tail(blocks))

BatchOf(blocks) == sort(IndexBlocks(DefaultBatch, blocks))


\* ------------------------------------------------------------ prefix scans
\* The column families share a fixed-prefix extractor, so an iterator made
\* with default read options seeks in prefix mode: from the seek key on, the
\* keys that share its extractor prefix come in ascending byte order; what
\* the iterator returns after them is not specified (any of the later keys,
\* in order, or nothing).  A seek key shorter than the extractor prefix is
\* out of the extractor's domain and gives a total-order scan.
SamePrefixRange(key, from) ==
    \/ Len(from) < PrefixLen
    \/ /\ Len(key) >= PrefixLen
       /\ SubSeq(key, 1, PrefixLen) = SubSeq(from, 1, PrefixLen)

\* The iterator as it would be with IteratorMode::Start
SeekForward_from_start(keys, from) == SortedKeys(keys)

\* IteratorMode::From(from, Direction::Forward) in total order
SeekForward(keys, from) == SortedKeys({k \in keys : ~BytewiseLess(k, from)})

RECURSIVE TakeRange(_, _)
TakeRange(sorted, from) ==
    IF sorted = <<>> \/ ~SamePrefixRange(Head(sorted), from) THEN <<>>
    ELSE <<Head(sorted)>> \o TakeRange(Tail(sorted), from)

\* The sequences a DBIterator over `keys`, positioned at `from`, may return.
DBIterators(keys, from) ==
    LET all == SeekForward(keys, from)
        head == TakeRange(all, from)
        rest == {all[i] : i \in (Len(head) + 1)..Len(all)}
    IN  {head \o SortedKeys(t) : t \in SUBSET rest}

\* DBStore::iter_prefix_cf over the iterator `it` RocksDB hands out
iter_prefix_cf(prefix, it) == [prefix |-> prefix, iter |-> it, done |-> FALSE]

\* ScanIterator::next as it would be without the starts_with test
ScanIterator_next_unfiltered(si) ==
    IF si.done THEN [item |-> None, si |-> si]
    ELSE IF si.iter = <<>> THEN [item |-> None, si |-> si]
    ELSE [item |-> Some(Head(si.iter)), si |-> [si EXCEPT !.iter = Tail(@)]]

\* ScanIterator::next: the item returned and the iterator afterwards
ScanIterator_next(si) ==
    IF si.done THEN [item |-> None, si |-> si]
    ELSE IF si.iter = <<>> THEN [item |-> None, si |-> si]
    ELSE LET key == Head(si.iter)
             adv == [si EXCEPT !.iter = Tail(@)]
         IN  IF ~starts_with(key, si.prefix)
             THEN [item |-> None, si |-> [adv EXCEPT !.done = TRUE]]
             ELSE [item |-> Some(key), si |-> adv]

\* Iterator::collect: next() until it returns None
RECURSIVE collect(_)
collect(si) ==
    LET r == ScanIterator_next(si)
    IN  IF r.item = None THEN <<>> ELSE r.item \o collect(r.si)

\* Every result iter_funding / iter_spending / iter_txid may give for a prefix.
ScanResults(d, cf, prefix) ==
    {collect(iter_prefix_cf(prefix, it)) : it \in DBIterators(DOMAIN Visible(d, cf), prefix)}

\* A prefix scan of a row's prefix yields the row, whatever the iterator does.
Yielded(d, cf, key) ==
    \A out \in ScanResults(d, cf, SubSeq(key, 1, PrefixLen)) : key \in Range(out)

\* ------------------------------------------------------------ upstream node
\* The node's best chain: chain A up to node.height, or, once it has
\* reorganized (node.fork >= 1), chain A below node.fork and chain B from there.
NodeBlock(n, h) ==
    [fork |-> IF n.fork # 0 /\ h >= n.fork THEN "B" ELSE "A", height |-> h]

NodeChain(n) == [i \in 1..(n.height + 1) |-> NodeBlock(n, i - 1)]

node_mine ==
    /\ node.height < MaxHeight
    /\ node' = [node EXCEPT !.height = @ + 1]
    /\ UNCHANGED <<db, storeOpen, bulk_import, auto_compactions, flush, lastWrite, committed, hist, promised,
                   chain, idx, reader, scan, mempool, tx_cache, status, call, ret>>

node_reorg ==
    /\ node.fork = 0
    /\ \E f \in 1..node.height, h \in node.height..MaxHeight :
          node' = [height |-> h, fork |-> f]
    /\ UNCHANGED <<db, storeOpen, bulk_import, auto_compactions, flush, lastWrite, committed, hist, promised,
                   chain, idx, reader, scan, mempool, tx_cache, status, call, ret>>

\* ------------------------------------------------------------------- Index
IdxIdle == [pc |-> "idle", todo |-> <<>>, chunk |-> <<>>]

\* Index::load: the Chain is rebuilt from the header rows; the rows must be
\* dense from height 0 without duplicates and the tip must be the header of
\* the highest row.
HeaderRowBlock(row) == CHOOSE b \in Blocks : HeaderRow(b) = row

LoadedBlocks(d) == {HeaderRowBlock(row) : row \in Range(read_headers(d))}

LoadOk(d) ==
    LET bs == LoadedBlocks(d)
        n == Cardinality(bs)
    IN  /\ \A h \in 0..(n - 1) : \E b \in bs : b.height = h
        /\ get_tip(d) = IF n = 0 THEN None
                        ELSE Some(HeaderBytes(CHOOSE b \in bs : b.height = n - 1))

LoadedChain(d) ==
    [i \in 1..Cardinality(LoadedBlocks(d)) |->
        CHOOSE b \in LoadedBlocks(d) : b.height = i - 1]

\* Tracker::new: DBStore::open, then Index::load
tracker_new ==
    /\ open
    /\ LoadOk(db')
    /\ chain' = LoadedChain(db')
    /\ idx' = IdxIdle
    /\ reader' = None
    /\ mempool' = {}
    /\ tx_cache' = {}
    /\ UNCHANGED <<node, scan, status, call, ret>>

\* Heights below fork_height are common to the local Chain and the node.
ForkHeight(c, n) ==
    CHOOSE f \in 0..Len(c) :
        /\ \A i \in 1..f : i <= n.height + 1 /\ c[i] = NodeBlock(n, i - 1)
        /\ f = Len(c) \/ f > n.height \/ c[f + 1] # NodeBlock(n, f)

\* Index::sync, steps 1-3: nothing to do when the tips agree; else find the
\* fork, truncate the Chain to it and ask for the node's blocks from there.
sync_begin ==
    /\ storeOpen
    /\ idx.pc = "idle"
    /\ chain # NodeChain(node)
    /\ LET f == ForkHeight(chain, node)
       IN  /\ chain' = SubSeq(chain, 1, f)
           /\ idx' = [pc |-> "write",
                      todo |-> SubSeq(NodeChain(node), f + 1, node.height + 1),
                      chunk |-> <<>>]
    /\ UNCHANGED <<db, storeOpen, bulk_import, auto_compactions, flush, lastWrite, committed, hist, promised,
                   node, reader, scan, mempool, tx_cache, status, call, ret>>

\* steps 4-5: one chunk of blocks becomes one sorted batch, which is written
sync_write ==
    /\ idx.pc = "write"
    /\ idx.todo # <<>>
    /\ LET n == IF Len(idx.todo) < ChunkSize THEN Len(idx.todo) ELSE ChunkSize
           blocks == SubSeq(idx.todo, 1, n)
       IN  /\ write(BatchOf(blocks))
           /\ idx' = [pc |-> "append",
                      todo |-> SubSeq(idx.todo, n + 1, Len(idx.todo)),
                      chunk |-> blocks]
    /\ UNCHANGED <<chain, node, reader, scan, mempool, tx_cache, status, call, ret>>

\* step 5: the chunk's headers are appended to the Chain; step 6: after the
\* last chunk the store is flushed
sync_append ==
    /\ idx.pc = "append"
    /\ chain' = chain \o idx.chunk
    /\ IF idx.todo = <<>>
       THEN /\ flush_begin
            /\ idx' = [pc |-> "flush", todo |-> <<>>, chunk |-> <<>>]
       ELSE /\ idx' = [idx EXCEPT !.pc = "write", !.chunk = <<>>]
            /\ UNCHANGED <<db, storeOpen, bulk_import, auto_compactions, flush, lastWrite, committed, hist, promised>>
    /\ UNCHANGED <<node, reader, scan, mempool, tx_cache, status, call, ret>>

sync_flush ==
    /\ idx.pc = "flush"
    /\ flush_step
    /\ idx' = IF flush'.pc = "idle" THEN IdxIdle ELSE idx
    /\ UNCHANGED <<chain, node, reader, scan, mempool, tx_cache, status, call, ret>>

\* an upstream fetch error aborts the current chunk
sync_abort ==
    /\ idx.pc = "write"
    /\ idx' = IdxIdle
    /\ UNCHANGED <<db, storeOpen, bulk_import, auto_compactions, flush, lastWrite, committed, hist, promised,
                   chain, node, reader, scan, mempool, tx_cache, status, call, ret>>

\* ------------------------------------------------------------------ readers
\* The rows of a block, per column family.
BlockRows(b, cf) == BatchRows(BatchOf(<<b>>), cf)

IndexCFs == {TXID_CF, FUNDING_CF, SPENDING_CF}

\* A reader takes the Chain's tip ...
reader_observe ==
    /\ storeOpen
    /\ reader = None
    /\ chain # <<>>
    /\ reader' = Some([tip |-> chain, scanned |-> FALSE, missing |-> {}])
    /\ UNCHANGED <<db, storeOpen, bulk_import, auto_compactions, flush, lastWrite, committed, hist, promised,
                   chain, node, idx, scan, mempool, tx_cache, status, call, ret>>

\* ... and then prefix-scans for the rows of the blocks up to that tip.
reader_scan ==
    /\ storeOpen
    /\ reader # None
    /\ ~reader[1].scanned
    /\ reader' = Some([reader[1] EXCEPT
            !.scanned = TRUE,
            !.missing = {r \in UNION {{[cf |-> cf, key |-> k] : k \in BlockRows(b, cf)} :
                                         b \in Range(reader[1].tip), cf \in IndexCFs} :
                            ~Yielded(db, r.cf, r.key)}])
    /\ UNCHANGED <<db, storeOpen, bulk_import, auto_compactions, flush, lastWrite, committed, hist, promised,
                   chain, node, idx, scan, mempool, tx_cache, status, call, ret>>

reader_done ==
    /\ reader # None
    /\ reader[1].scanned
    /\ reader' = None
    /\ UNCHANGED <<db, storeOpen, bulk_import, auto_compactions, flush, lastWrite, committed, hist, promised,
                   chain, node, idx, scan, mempool, tx_cache, status, call, ret>>

\* --------------------------------------------------------- the whole system
EmptyDB == [sst |-> EmptyLayer, mem |-> EmptyLayer, wal |-> EmptyLayer, default_cf |-> {}]

\* No tracker call is running.
NoCall ==
    [op |-> "none", pc |-> "idle", lock |-> "none", txs |-> {},
     prev_statushash |-> None, prev_entries |-> <<>>]

NoScan == [cf |-> FUNDING_CF, prefix |-> <<>>, iter |-> <<>>, done |-> TRUE, out |-> <<>>, ended |-> TRUE]

\* A fresh data directory, the tracker not yet constructed.
Init ==
    /\ db = EmptyDB
    /\ storeOpen = FALSE
    /\ bulk_import = TRUE
    /\ auto_compactions = FALSE
    /\ flush = FlushIdle
    /\ lastWrite = None
    /\ committed = NoRows
    /\ hist = [opened_compacted |-> FALSE, flushed |-> FALSE]
    /\ promised = [rows |-> NoRows, tip |-> None, writes |-> FALSE]
    /\ chain = <<>>
    /\ node = [height |-> 0, fork |-> 0]
    /\ idx = IdxIdle
    /\ reader = None
    /\ scan = NoScan
    /\ mempool = {}
    /\ tx_cache = {}
    /\ status = None
    /\ call = NoCall
    /\ ret = None

tracker_background_flush ==
    /\ \E cf \in DataCFs : background_flush(cf)
    /\ UNCHANGED <<chain, node, idx, reader, scan, mempool, tx_cache, status, call, ret>>

tracker_crash ==
    /\ crash
    /\ chain' = <<>>
    /\ idx' = IdxIdle
    /\ reader' = None
    /\ mempool' = {}
    /\ tx_cache' = {}
    /\ UNCHANGED <<node, scan, status, call, ret>>

\* The writer: the tracker's construction and its sync loop, over RocksDB
\* and the upstream node.
Writer ==
    \/ tracker_new
    \/ sync_begin
    \/ sync_write
    \/ sync_append
    \/ sync_flush
    \/ sync_abort
    \/ tracker_background_flush
    \/ node_mine
    \/ node_reorg

\* The writer, with crashes and restarts.
Next ==
    \/ Writer
    \/ tracker_crash

Spec == Init /\ [][Next]_vars

\* One life of the process: the writer interleaved with a reader.
NextRun ==
    \/ Writer
    \/ reader_observe
    \/ reader_scan
    \/ reader_done

SpecRun == Init /\ [][NextRun]_vars

\* ------------------------------------------------- DBStore under any caller
\* The batches handed to write(): one block with rows in all four
\* families, a chunk of two blocks that holds that block too and has its
\* funding rows twice, and the default batch.
Blk(f, h) == [fork |-> f, height |-> h]

TestBatches ==
    {BatchOf(<<Blk("A", 2)>>),
     [BatchOf(<<Blk("A", 1), Blk("A", 2)>>) EXCEPT !.funding_rows = SortRows(@ \o @)],
     DefaultBatch}

store_open == open /\ UNCHANGED <<chain, node, idx, reader, scan, mempool, tx_cache, status, call, ret>>

store_write == \E batch \in TestBatches : write(batch) /\ UNCHANGED <<chain, node, idx, reader, scan, mempool, tx_cache, status, call, ret>>

store_flush_begin == flush_begin /\ UNCHANGED <<chain, node, idx, reader, scan, mempool, tx_cache, status, call, ret>>

store_flush_step == flush_step /\ UNCHANGED <<chain, node, idx, reader, scan, mempool, tx_cache, status, call, ret>>

store_background_flush ==
    /\ \E cf \in DataCFs : background_flush(cf)
    /\ UNCHANGED <<chain, node, idx, reader, scan, mempool, tx_cache, status, call, ret>>

store_crash == crash /\ UNCHANGED <<chain, node, idx, reader, scan, mempool, tx_cache, status, call, ret>>

NextStore ==
    \/ store_open
    \/ store_write
    \/ store_flush_begin
    \/ store_flush_step
    \/ store_background_flush
    \/ store_crash

SpecStore == Init /\ [][NextStore]_vars

\* ------------------------------------------------------------ one prefix scan
\* The rows a family may hold: one script at three heights, and rows of a
\* smaller and of a greater prefix.
ScanKeys ==
    {ScriptHashPrefix \o HeightBE(h) : h \in {0, 1, 2}}
    \cup {Pad(<<0, 0>>) \o HeightBE(1), Pad(<<1, 0>>) \o HeightBE(0)}

\* The prefixes asked for: shorter than a row prefix, row prefixes (present,
\* absent), longer than a row prefix, a whole row, longer than a row.
ScanPrefixes ==
    {<<>>, <<0>>, ScriptHashPrefix, Pad(<<0, 0>>), Pad(<<1, 1>>),
     ScriptHashPrefix \o <<0>>,
     ScriptHashPrefix \o HeightBE(1),
     ScriptHashPrefix \o HeightBE(1) \o <<0>>}

RowsMap(keys) == [k \in keys |-> EmptyValue]

\* A store in steady state whose families hold any of the rows.
InitScan ==
    /\ \E cf \in IndexCFs, keys \in SUBSET ScanKeys :
          db = [sst |-> [EmptyLayer EXCEPT
                            ![cf] = RowsMap(keys),
                            ![CONFIG_CF] = Put(EmptyMap, CONFIG_KEY,
                                to_vec([compacted |-> TRUE, format |-> CURRENT_FORMAT]))],
                mem |-> EmptyLayer,
                wal |-> EmptyLayer,
                default_cf |-> {}]
    /\ storeOpen = TRUE
    /\ bulk_import = FALSE
    /\ auto_compactions = TRUE
    /\ flush = FlushIdle
    /\ lastWrite = None
    /\ committed = [cf \in DataCFs |-> DOMAIN db.sst[cf]]
    /\ hist = [opened_compacted |-> TRUE, flushed |-> TRUE]
    /\ promised = [rows |-> committed, tip |-> None, writes |-> FALSE]
    /\ chain = <<>>
    /\ node = [height |-> 0, fork |-> 0]
    /\ idx = IdxIdle
    /\ reader = None
    /\ scan = NoScan
    /\ mempool = {}
    /\ tx_cache = {}
    /\ status = None
    /\ call = NoCall
    /\ ret = None

\* iter_funding / iter_spending / iter_txid
scan_iter_prefix ==
    /\ storeOpen
    /\ \E cf \in IndexCFs, prefix \in ScanPrefixes :
          \E it \in DBIterators(DOMAIN Visible(db, cf), prefix) :
             scan' = [cf |-> cf, out |-> <<>>, ended |-> FALSE] @@ iter_prefix_cf(prefix, it)
    /\ UNCHANGED <<db, storeOpen, bulk_import, auto_compactions, flush, lastWrite, committed, hist, promised,
                   chain, node, idx, reader, mempool, tx_cache, status, call, ret>>

\* one call of next() on the iterator
scan_next ==
    /\ storeOpen
    /\ LET r == ScanIterator_next([prefix |-> scan.prefix, iter |-> scan.iter, done |-> scan.done])
       IN  scan' = [cf |-> scan.cf,
                    out |-> scan.out \o r.item,
                    ended |-> scan.ended \/ r.item = None] @@ r.si
    /\ UNCHANGED <<db, storeOpen, bulk_import, auto_compactions, flush, lastWrite, committed, hist, promised,
                   chain, node, idx, reader, mempool, tx_cache, status, call, ret>>

NextScan ==
    \/ scan_iter_prefix
    \/ scan_next

SpecScan == InitScan /\ [][NextScan]_vars

\* ------------------------------------------------- opening any data directory
\* The configs a data directory may hold: none, or one of any format.
StoredConfigs ==
    {None} \cup {Some([compacted |-> c, format |-> f]) :
                    c \in BOOLEAN, f \in 0..(CURRENT_FORMAT + 1)}

\* A data directory left by some electrs: a config or none, rows of the old
\* layout in the anonymous column family or none, index rows or none.
InitOpen ==
    /\ \E stored \in StoredConfigs, old \in {{}, {<<0>>}}, batch \in TestBatches :
          /\ db = [sst |-> ApplyPuts(
                              [EmptyLayer EXCEPT ![CONFIG_CF] =
                                  IF stored = None THEN EmptyMap
                                  ELSE Put(EmptyMap, CONFIG_KEY, to_vec(stored[1]))],
                              IF batch = DefaultBatch THEN <<>> ELSE db_batch_of(batch)),
                   mem |-> EmptyLayer,
                   wal |-> EmptyLayer,
                   default_cf |-> old]
          /\ hist = [opened_compacted |-> FALSE,
                     flushed |-> stored # None /\ stored[1].compacted]
    /\ storeOpen = FALSE
    /\ bulk_import = TRUE
    /\ auto_compactions = FALSE
    /\ flush = FlushIdle
    /\ lastWrite = None
    /\ committed = NoRows
    /\ promised = [rows |-> NoRows, tip |-> None, writes |-> FALSE]
    /\ chain = <<>>
    /\ node = [height |-> 0, fork |-> 0]
    /\ idx = IdxIdle
    /\ reader = None
    /\ scan = NoScan
    /\ mempool = {}
    /\ tx_cache = {}
    /\ status = None
    /\ call = NoCall
    /\ ret = None

\* bail!("unsupported DB format {}, re-index required", config.format)
OpenErr == Some([op |-> "open", err |-> "unsupported DB format, re-index required"])

\* DBStore::open on a store it rejects: the DBStore it built is dropped.
store_open_bail ==
    /\ ~storeOpen
    /\ unsupported(get_config(db), is_old(db))
    /\ ret' = OpenErr
    /\ UNCHANGED <<db, storeOpen, bulk_import, auto_compactions, flush, lastWrite, committed, hist, promised,
                   chain, node, idx, reader, scan, mempool, tx_cache, status, call>>

NextOpen ==
    \/ store_open
    \/ store_open_bail
    \/ store_write
    \/ store_flush_begin
    \/ store_flush_step
    \/ store_crash

SpecOpen == InitOpen /\ [][NextOpen]_vars

\* ------------------------------------------------- transactions and mempool
\* Every block holds one transaction; its txid starts with the block's txid
\* prefix, and two blocks of a chain may share that prefix.
Txid(b) == TxidPrefix(b) \o <<b.height \div ByteRange>>

Txids == {Txid(b) : b \in Blocks}

\* The block a transaction was mined in, on whichever chain.
TxBlock(txid) == CHOOSE b \in Blocks : Txid(b) = txid

\* The transaction has an output paying the subscribed script (its funding row
\* is FundingRows): every transaction above the genesis block has.
PaysScript(txid) == TxBlock(txid).height >= 1

\* The transaction spends the output of the script's transaction one block
\* below (its spending row is SpendingRows).
Spends(txid, spent) ==
    /\ TxBlock(txid).height >= 2
    /\ TxBlock(spent).height = TxBlock(txid).height - 1

\* The node's mempool: the transaction its next block will hold.
NodeMempool(n) ==
    IF n.height < MaxHeight THEN {Txid(NodeBlock(n, n.height + 1))} ELSE {}

\* ------------------------------------------------------------------ Status
\* Status::new: empty history, statushash None
Status_new == [confirmed |-> <<>>, mempool |-> <<>>, tip |-> None, statushash |-> None]

ConfirmedEntry(txid, h) ==
    [txid |-> txid, confirmed |-> TRUE, height |-> h, has_unconfirmed_parent |-> FALSE]

MempoolEntry(txid, m) ==
    [txid |-> txid, confirmed |-> FALSE, height |-> 0,
     has_unconfirmed_parent |-> \E p \in m : Spends(txid, p)]

\* The entries of a set of [key, entry] with distinct keys, ascending by key.
RECURSIVE SortEntries(_)
SortEntries(S) ==
    IF S = {} THEN <<>>
    ELSE LET e == CHOOSE x \in S : \A y \in S \ {x} : BytewiseLess(x.key, y.key)
         IN  <<e.entry>> \o SortEntries(S \ {e})

\* Confirmed sync: the heights the funding scan gives, the block of the
\* Chain at each, its transaction if it pays exactly this script; sorted by
\* (height, txid).
sync_confirmed(funding, c) ==
    LET heights == {HeightOf(funding[i]) : i \in 1..Len(funding)}
        hits == {h \in heights : h < Len(c) /\ PaysScript(Txid(c[h + 1]))}
    IN  SortEntries({[key |-> HeightBE(h) \o Txid(c[h + 1]),
                      entry |-> ConfirmedEntry(Txid(c[h + 1]), h)] : h \in hits})

\* Mempool sync: the mempool's entries touching this script, sorted by
\* (has_unconfirmed_parent, txid).
sync_mempool(m) ==
    SortEntries({[key |-> <<IF MempoolEntry(t, m).has_unconfirmed_parent THEN 1 ELSE 0>> \o t,
                  entry |-> MempoolEntry(t, m)] : t \in {x \in m : PaysScript(x)}})

\* "<txid_hex>:<height>:\n" of an entry: the height of a confirmed entry, 0
\* or -1 for an unconfirmed one.
HashLine(e) ==
    <<e.txid, IF e.confirmed THEN e.height
              ELSE IF e.has_unconfirmed_parent THEN -1 ELSE 0>>

\* Status::statushash of a history: the digest of the lines of its entries
\* in order (SHA-256 taken as collision-free), None for no history.
statushash_of(entries) ==
    IF entries = <<>> THEN None
    ELSE Some([i \in 1..Len(entries) |-> HashLine(entries[i])])

\* The ordered entry sequence of a Status: confirmed, then mempool.
Entries(st) == st.confirmed \o st.mempool

\* Status::sync when every fetch succeeds: both portions recomputed.
Status_sync(st, funding, c, m) ==
    LET confirmed == sync_confirmed(funding, c)
        mp == sync_mempool(m)
    IN  [confirmed |-> confirmed,
         mempool |-> mp,
         tip |-> IF c = <<>> THEN None ELSE Some(HeaderBytes(c[Len(c)])),
         statushash |-> statushash_of(confirmed \o mp)]

\* The transactions Status::sync hands back: those of the entries it added.
Status_sync_txs(old, new) ==
    {Entries(new)[i].txid : i \in 1..Len(Entries(new))}
    \ {Entries(old)[i].txid : i \in 1..Len(Entries(old))}

\* Status::get_unspent: the outputs paying the script, of the confirmed
\* entries still on the Chain and of the mempool entries, that no other of
\* these entries spends.
get_unspent(st, c) ==
    LET live == {st.confirmed[i].txid : i \in
                    {j \in 1..Len(st.confirmed) :
                        /\ st.confirmed[j].height < Len(c)
                        /\ Txid(c[st.confirmed[j].height + 1]) = st.confirmed[j].txid}}
                \cup {st.mempool[i].txid : i \in 1..Len(st.mempool)}
    IN  {[txid |-> t, vout |-> 0] : t \in {x \in live : ~\E y \in live : Spends(y, x)}}

\* ----------------------------------------------------------- Tracker::sync
\* Tracker::sync(&mut self) begins: no other call of the tracker is running.
trk_sync ==
    /\ storeOpen
    /\ call = NoCall
    /\ call' = [NoCall EXCEPT !.op = "sync", !.pc = "index"]
    /\ ret' = None
    /\ UNCHANGED <<db, storeOpen, bulk_import, auto_compactions, flush, lastWrite, committed, hist, promised,
                   chain, node, idx, reader, scan, mempool, tx_cache, status>>

\* self.index.sync(&self.p2p_client) is running
InIndexSync == call.op = "sync" /\ call.pc = "index"

trk_sync_begin == InIndexSync /\ sync_begin

trk_sync_write == InIndexSync /\ sync_write

trk_sync_append == InIndexSync /\ sync_append

trk_sync_flush == InIndexSync /\ sync_flush

trk_sync_abort == InIndexSync /\ sync_abort

\* self.index.sync(..)?: Ok once the Chain has caught up with the node
trk_index_sync_ok ==
    /\ InIndexSync
    /\ idx.pc = "idle"
    /\ chain = NodeChain(node)
    /\ call' = [call EXCEPT !.pc = "mempool"]
    /\ UNCHANGED <<db, storeOpen, bulk_import, auto_compactions, flush, lastWrite, committed, hist, promised,
                   chain, node, idx, reader, scan, mempool, tx_cache, status, ret>>

\* self.index.sync(..)?: Err (a fetch from the node failed before the Chain
\* had caught up), sync returns it
trk_index_sync_err ==
    /\ InIndexSync
    /\ idx.pc = "idle"
    /\ chain # NodeChain(node)
    /\ call' = NoCall
    /\ ret' = Some([op |-> "sync", val |-> "Err", from |-> "index.sync"])
    /\ UNCHANGED <<db, storeOpen, bulk_import, auto_compactions, flush, lastWrite, committed, hist, promised,
                   chain, node, idx, reader, scan, mempool, tx_cache, status>>

\* self.mempool.sync(&self.rpc_client)?: Ok, the mempool is what the node
\* reported (the next transaction may not have reached it yet); Ok(())
trk_mempool_sync_ok ==
    /\ call.op = "sync"
    /\ call.pc = "mempool"
    /\ \E m \in SUBSET NodeMempool(node) : mempool' = m
    /\ call' = NoCall
    /\ ret' = Some([op |-> "sync", val |-> "Ok", from |-> "mempool.sync"])
    /\ UNCHANGED <<db, storeOpen, bulk_import, auto_compactions, flush, lastWrite, committed, hist, promised,
                   chain, node, idx, reader, scan, tx_cache, status>>

\* self.mempool.sync(..)?: Err, the mempool stays as the last sync left it
trk_mempool_sync_err ==
    /\ call.op = "sync"
    /\ call.pc = "mempool"
    /\ call' = NoCall
    /\ ret' = Some([op |-> "sync", val |-> "Err", from |-> "mempool.sync"])
    /\ UNCHANGED <<db, storeOpen, bulk_import, auto_compactions, flush, lastWrite, committed, hist, promised,
                   chain, node, idx, reader, scan, mempool, tx_cache, status>>

\* ----------------------------------- Tracker::subscribe and update_status
\* A call of a client needs &self: Tracker::sync is not running.
ClientMayCall == storeOpen /\ call = NoCall /\ idx.pc = "idle"

\* let mut status = Status::new(script_hash); self.update_status(&mut status)
trk_subscribe ==
    /\ ClientMayCall
    /\ status = None
    /\ status' = Some(Status_new)
    /\ call' = [NoCall EXCEPT !.op = "subscribe", !.pc = "sync",
                              !.prev_statushash = Status_new.statushash,
                              !.prev_entries = Entries(Status_new)]
    /\ ret' = None
    /\ UNCHANGED <<db, storeOpen, bulk_import, auto_compactions, flush, lastWrite, committed, hist, promised,
                   chain, node, idx, reader, scan, mempool, tx_cache>>

\* update_status() as it would be if it took the cache's write lock first
trk_update_status_locks_first ==
    /\ ClientMayCall
    /\ status # None
    /\ call' = [NoCall EXCEPT !.op = "update_status", !.pc = "sync", !.lock = "write",
                              !.prev_statushash = status[1].statushash,
                              !.prev_entries = Entries(status[1])]
    /\ ret' = None
    /\ UNCHANGED <<db, storeOpen, bulk_import, auto_compactions, flush, lastWrite, committed, hist, promised,
                   chain, node, idx, reader, scan, mempool, tx_cache, status>>

\* let prev_statushash = status.statushash();
trk_update_status ==
    /\ ClientMayCall
    /\ status # None
    /\ call' = [NoCall EXCEPT !.op = "update_status", !.pc = "sync",
                              !.prev_statushash = status[1].statushash,
                              !.prev_entries = Entries(status[1])]
    /\ ret' = None
    /\ UNCHANGED <<db, storeOpen, bulk_import, auto_compactions, flush, lastWrite, committed, hist, promised,
                   chain, node, idx, reader, scan, mempool, tx_cache, status>>

\* let txs = status.sync(&self.index, &self.mempool, &self.p2p_client)?: Ok
trk_status_sync_ok ==
    /\ call.pc = "sync"
    /\ \E funding \in ScanResults(db, FUNDING_CF, ScriptHashPrefix) :
          LET new == Status_sync(status[1], funding, chain, mempool)
          IN  /\ status' = Some(new)
              /\ call' = [call EXCEPT !.pc = "extend", !.txs = Status_sync_txs(status[1], new)]
    /\ UNCHANGED <<db, storeOpen, bulk_import, auto_compactions, flush, lastWrite, committed, hist, promised,
                   chain, node, idx, reader, scan, mempool, tx_cache, ret>>

\* status.sync(..)?: Err, a fetch failed before the history was merged; the
\* Status subscribe() made is dropped
trk_status_sync_err ==
    /\ call.pc = "sync"
    /\ status' = IF call.op = "subscribe" THEN None ELSE status
    /\ call' = NoCall
    /\ ret' = Some([op |-> call.op, val |-> "Err",
                    before |-> call.prev_entries, after |-> call.prev_entries])
    /\ UNCHANGED <<db, storeOpen, bulk_import, auto_compactions, flush, lastWrite, committed, hist, promised,
                   chain, node, idx, reader, scan, mempool, tx_cache>>

\* self.tx_cache.write().unwrap()
trk_tx_cache_write ==
    /\ call.pc = "extend"
    /\ call.lock = "none"
    /\ call' = [call EXCEPT !.lock = "write"]
    /\ UNCHANGED <<db, storeOpen, bulk_import, auto_compactions, flush, lastWrite, committed, hist, promised,
                   chain, node, idx, reader, scan, mempool, tx_cache, status, ret>>

\* HashMap::extend as it would be if the map were replaced
tx_cache_replaced(cache, txs) == txs

\* HashMap::extend as it would be if nothing were added
tx_cache_unextended(cache, txs) == cache

\* .extend(txs)
tx_cache_extend(cache, txs) == cache \cup txs

\* Ok(..) as it would be with the test the other way round
update_status_result_negated(prev_statushash, statushash) == prev_statushash = statushash

\* Ok(prev_statushash != status.statushash())
update_status_result(prev_statushash, statushash) == prev_statushash # statushash

\* .extend(txs); Ok(prev_statushash != status.statushash())
trk_extend ==
    /\ call.pc = "extend"
    /\ call.lock = "write"
    /\ tx_cache' = tx_cache_extend(tx_cache, call.txs)
    /\ call' = NoCall
    /\ ret' = Some([op |-> call.op,
                    val |-> IF update_status_result(call.prev_statushash, status[1].statushash)
                            THEN "Ok(true)" ELSE "Ok(false)",
                    before |-> call.prev_entries, after |-> Entries(status[1])])
    /\ UNCHANGED <<db, storeOpen, bulk_import, auto_compactions, flush, lastWrite, committed, hist, promised,
                   chain, node, idx, reader, scan, mempool, status>>

\* ------------------------------------------------------- Tracker's queries
\* Tracker::get_history: the confirmed entries, then the mempool entries
get_history(st) == [i \in 1..Len(Entries(st)) |-> Entries(st)[i].txid]

\* let unspent = status.get_unspent(&self.index.chain());
trk_get_balance ==
    /\ ClientMayCall
    /\ status # None
    /\ call' = [NoCall EXCEPT !.op = "get_balance", !.pc = "read",
                              !.txs = {o.txid : o \in get_unspent(status[1], chain)}]
    /\ ret' = None
    /\ UNCHANGED <<db, storeOpen, bulk_import, auto_compactions, flush, lastWrite, committed, hist, promised,
                   chain, node, idx, reader, scan, mempool, tx_cache, status>>

\* let tx_cache = self.tx_cache.read().unwrap();
trk_tx_cache_read ==
    /\ call.op = "get_balance"
    /\ call.pc = "read"
    /\ call' = [call EXCEPT !.pc = "sum", !.lock = "read"]
    /\ UNCHANGED <<db, storeOpen, bulk_import, auto_compactions, flush, lastWrite, committed, hist, promised,
                   chain, node, idx, reader, scan, mempool, tx_cache, status, ret>>

\* for outpoint in &unspent { tx_cache.get(&outpoint.txid).expect("missing tx") .. }
\* with one unit of value per output; panic: expect("missing tx") failed
trk_get_balance_sum ==
    /\ call.op = "get_balance"
    /\ call.pc = "sum"
    /\ call' = NoCall
    /\ ret' = Some([op |-> "get_balance",
                    panic |-> ~(call.txs \subseteq tx_cache),
                    val |-> Cardinality(call.txs \cap tx_cache)])
    /\ UNCHANGED <<db, storeOpen, bulk_import, auto_compactions, flush, lastWrite, committed, hist, promised,
                   chain, node, idx, reader, scan, mempool, tx_cache, status>>

\* self.tx_cache.read().unwrap()
trk_get_cached_tx ==
    /\ ClientMayCall
    /\ \E txid \in Txids :
          call' = [NoCall EXCEPT !.op = "get_cached_tx", !.pc = "get", !.lock = "read",
                                 !.txs = {txid}]
    /\ ret' = None
    /\ UNCHANGED <<db, storeOpen, bulk_import, auto_compactions, flush, lastWrite, committed, hist, promised,
                   chain, node, idx, reader, scan, mempool, tx_cache, status>>

\* .get(&txid).map(f), f reading the transaction only
trk_get_cached_tx_map ==
    /\ call.op = "get_cached_tx"
    /\ call.pc = "get"
    /\ call' = NoCall
    /\ ret' = Some([op |-> "get_cached_tx",
                    val |-> IF call.txs \subseteq tx_cache THEN Some(call.txs) ELSE None])
    /\ UNCHANGED <<db, storeOpen, bulk_import, auto_compactions, flush, lastWrite, committed, hist, promised,
                   chain, node, idx, reader, scan, mempool, tx_cache, status>>

\* Index::filter_by_txid: the rows the scan of the txid's prefix yields, the
\* height of each mapped to the Chain's block at that height.
filter_by_txid(rows, c) ==
    LET hits == SelectSeq(rows, LAMBDA row : HeightOf(row) < Len(c))
    IN  [i \in 1..Len(hits) |-> c[HeightOf(hits[i]) + 1]]

\* self.index.filter_by_txid(txid).next()
get_blockhash_by_txid(rows, c) ==
    LET blocks == filter_by_txid(rows, c)
    IN  IF blocks = <<>> THEN None ELSE Some(Head(blocks))

trk_get_blockhash_by_txid ==
    /\ ClientMayCall
    /\ \E txid \in Txids :
          \E rows \in ScanResults(db, TXID_CF, SubSeq(txid, 1, PrefixLen)) :
             ret' = Some([op |-> "get_blockhash_by_txid", txid |-> txid,
                          val |-> get_blockhash_by_txid(rows, chain)])
    /\ UNCHANGED <<db, storeOpen, bulk_import, auto_compactions, flush, lastWrite, committed, hist, promised,
                   chain, node, idx, reader, scan, mempool, tx_cache, status, call>>

\* ------------------------------------------------- the tracker and its clients
NextTracker ==
    \/ tracker_new
    \/ node_mine
    \/ node_reorg
    \/ trk_sync
    \/ trk_sync_begin
    \/ trk_sync_write
    \/ trk_sync_append
    \/ trk_sync_flush
    \/ trk_sync_abort
    \/ trk_index_sync_ok
    \/ trk_index_sync_err
    \/ trk_mempool_sync_ok
    \/ trk_mempool_sync_err
    \/ trk_subscribe
    \/ trk_update_status
    \/ trk_status_sync_ok
    \/ trk_status_sync_err
    \/ trk_tx_cache_write
    \/ trk_extend
    \/ trk_get_balance
    \/ trk_tx_cache_read
    \/ trk_get_balance_sum
    \/ trk_get_cached_tx
    \/ trk_get_cached_tx_map
    \/ trk_get_blockhash_by_txid

SpecTracker == Init /\ [][NextTracker]_vars

\* ================================================================== claims
Keys(cf) == DOMAIN Visible(db, cf)

NoDuplicates(seq) == \A i, j \in 1..Len(seq) : i # j => seq[i] # seq[j]

\* C1: once write(batch) has returned, every funding, spending and txid row
\* of the batch (and of the batches written before it) is yielded by the
\* prefix scan of its family for the row's prefix, every header row is
\* returned by read_headers(), and get_tip() is the tip_row of that batch.
C1_WrittenRowsAreRead ==
    (storeOpen /\ lastWrite # None) =>
        /\ \A cf \in IndexCFs : \A key \in BatchRows(lastWrite[1].batch, cf) \cup committed[cf] :
              Yielded(db, cf, key)
        /\ BatchRows(lastWrite[1].batch, HEADERS_CF) \cup committed[HEADERS_CF]
              \subseteq Range(read_headers(db))
        /\ get_tip(db) = Some(lastWrite[1].batch.tip_row)

\* C1 witness: a batch with rows in all four families was written after
\* another batch, whose tip it has replaced, and a flush is under way.
C1_Witness ==
    /\ storeOpen
    /\ lastWrite # None
    /\ lastWrite[1].batch = BatchOf(<<Blk("A", 2)>>)
    /\ HeaderRow(Blk("A", 1)) \in committed[HEADERS_CF]
    /\ flush.pc = "compact_range_cf"

\* C8: read_headers() returns exactly the header rows committed by the
\* write() calls (and those the store held when it was opened), each once,
\* and never the tip singleton key.
C8_ReadHeadersExact ==
    storeOpen =>
        /\ Range(read_headers(db)) = committed[HEADERS_CF]
        /\ NoDuplicates(read_headers(db))
        /\ TIP_KEY \notin Range(read_headers(db))

\* C8 witness: two header rows are committed and the tip singleton is in
\* the headers family.
C8_Witness ==
    /\ storeOpen
    /\ Len(read_headers(db)) = 2
    /\ TIP_KEY \in Keys(HEADERS_CF)

\* C5: a write() issued on a store opened with compacted = false before any
\* flush() has returned runs without the write-ahead log and with sync =
\* false; once a flush() has returned the persisted config has compacted =
\* true and every write() runs with the write-ahead log and sync = true.
C5_DurabilityModeFollowsPhase ==
    /\ hist.flushed => PersistedConfig.compacted
    /\ lastWrite # None =>
          /\ (~lastWrite[1].opened_compacted /\ ~lastWrite[1].flushed)
                => lastWrite[1].opts = [sync |-> FALSE, disable_wal |-> TRUE]
          /\ lastWrite[1].flushed
                => lastWrite[1].opts = [sync |-> TRUE, disable_wal |-> FALSE]

\* C5 witness: in one life of the process the store was opened with
\* compacted = false, flushed, and then written to.
C5_Witness ==
    /\ lastWrite # None
    /\ ~lastWrite[1].opened_compacted
    /\ lastWrite[1].flushed
    /\ lastWrite[1].opts.sync

Steady == ~bulk_import /\ auto_compactions

\* C6: the persisted compacted flag never goes back to false, and it turns
\* true only in flush(), in the set_config that follows the compaction of
\* every family; while a DBStore lives its bulk_import flag turns false only
\* in the start_compactions of a flush() and never turns true again; and a
\* store whose persisted config has compacted = true is in steady state
\* (bulk_import = false, auto-compactions on) whenever no flush() is running,
\* so already when open() returns.
C6_PhaseMonotonic ==
    /\ [][PersistedConfig.compacted => PersistedConfig'.compacted]_vars
    /\ [][(~PersistedConfig.compacted /\ PersistedConfig'.compacted)
            => (flush.pc = "set_config" /\ flush.compacted = CFSet)]_vars
    /\ [][(storeOpen /\ storeOpen' /\ Steady) => Steady']_vars
    /\ [][(storeOpen /\ storeOpen' /\ bulk_import /\ ~bulk_import')
            => flush.pc = "start_compactions"]_vars
    /\ []((storeOpen /\ flush.pc = "idle" /\ PersistedConfig.compacted) => Steady)

\* C6 witness: a store is reopened after a crash with compacted = true
\* persisted, and is in steady state.
C6_Witness ==
    /\ storeOpen
    /\ hist.opened_compacted
    /\ Steady

\* All rows of block b are in the store.
HoldsBlock(b) == \A cf \in DataCFs : BlockRows(b, cf) \subseteq Keys(cf)

\* C2: in every state, also the one a crash leaves behind, the store holds
\* whole batches only and the tip of the last of them: without a tip no
\* family holds a row, the block of the tip has all its rows in all four
\* families, and a block with a header row or a txid row in the store has
\* all its rows in it.
C2_AtomicAcrossFamilies ==
    /\ get_tip(db) = None => \A cf \in DataCFs : Keys(cf) = {}
    /\ get_tip(db) # None =>
          \E b \in Blocks : HeaderBytes(b) = get_tip(db)[1] /\ HoldsBlock(b)
    /\ \A b \in Blocks :
          (HeaderRow(b) \in Keys(HEADERS_CF) \/ TxidRow(b) \in Keys(TXID_CF)) => HoldsBlock(b)

\* C4: what a flush() that has returned leaves committed, and every batch
\* written after it, is durable: at any later point, also right after a
\* crash and after the reopen, every such row is in its family and the tip
\* is the tip_row of the last such batch.
C4_DurableAfterFlush ==
    /\ \A cf \in DataCFs : promised.rows[cf] \subseteq Keys(cf)
    /\ promised.tip # None => get_tip(db) = promised.tip

\* C4 witness: the process has crashed after a write() that followed a
\* flush(), with rows of three families promised.
C4_Witness ==
    /\ ~storeOpen
    /\ promised.writes
    /\ \A cf \in {HEADERS_CF, TXID_CF, FUNDING_CF} : promised.rows[cf] # {}

\* C3: a block is in the Chain only once the write() of its batch has
\* returned, so all its rows are in the store; and a reader that took the
\* Chain's tip and then scanned the prefixes of the rows of the blocks up to
\* that tip missed none of them, whatever the writer did in between.
C3_MonotonicPublication ==
    /\ \A b \in Range(chain) : HoldsBlock(b)
    /\ (reader # None /\ reader[1].scanned) => reader[1].missing = {}

\* C3 witness: a reader has scanned for a tip of two blocks or more, one of
\* which the writer has meanwhile cut off the Chain.
C3_Witness ==
    /\ reader # None
    /\ reader[1].scanned
    /\ Len(reader[1].tip) >= 2
    /\ \E b \in Range(reader[1].tip) : b \notin Range(chain)

\* The index has caught up with a node that has reorganized.
SwitchedToB ==
    /\ storeOpen
    /\ idx.pc = "idle"
    /\ node.fork # 0
    /\ chain = NodeChain(node)

\* A row of block b that no block of the Chain has is in the store.
StaleRow(b) ==
    \E cf \in DataCFs : \E key \in BlockRows(b, cf) \cap Keys(cf) :
        \A c \in Range(chain) : key \notin BlockRows(c, cf)

C9_PrefixScanSafety ==
    /\ [](\A i \in 1..Len(scan.out) : starts_with(scan.out[i], scan.prefix))
    /\ [][(scan.ended /\ scan'.ended) => scan'.out = scan.out]_vars

\* C9 witness: a scan has yielded keys, was handed a key that does not
\* start with the prefix, stopped there and left keys behind it unread.
C9_Witness ==
    /\ scan.done
    /\ scan.ended
    /\ Len(scan.out) >= 2
    /\ scan.iter # <<>>

\* C10: the scan of a row prefix that has ended has yielded exactly the
\* keys of the family that start with the prefix, each once, in ascending
\* byte order, hence in ascending order of their height.
C10_PrefixScanCompleteOrdered ==
    (scan.ended /\ Len(scan.prefix) = PrefixLen) =>
        /\ scan.out = SortedKeys({k \in Keys(scan.cf) : starts_with(k, scan.prefix)})
        /\ \A i, j \in 1..Len(scan.out) :
              i < j => HeightOf(scan.out[i]) < HeightOf(scan.out[j])

\* C10 witness: the scan of a script hash prefix has ended with three rows
\* of three heights, in a family that also holds rows below and above them.
C10_Witness ==
    /\ scan.ended
    /\ scan.prefix = ScriptHashPrefix
    /\ Len(scan.out) = 3
    /\ Keys(scan.cf) = ScanKeys

\* The store is one open() must reject: its config is of an older format or
\* the anonymous column family holds a row.
BadStore == get_config(db).format < CURRENT_FORMAT \/ db.default_cf # {}

\* The config on disk, None when there is none.
StoredConfig(d) ==
    IF CONFIG_KEY \in DOMAIN Recovered(d, CONFIG_CF)
    THEN Some(from_slice(Recovered(d, CONFIG_CF)[CONFIG_KEY])) ELSE None

\* C11: open() fails, demanding a re-index, exactly when the stored config
\* has format < CURRENT_FORMAT or the anonymous column family holds a row; a
\* failed open() returns no DBStore and leaves the database, hence the
\* persisted config, and the phase as they were.  Otherwise open() succeeds
\* and the config it read, {compacted: false, format: 2} when none was
\* stored, is on disk when it returns.
C11_OpenRejectsOldFormats ==
    /\ [](~storeOpen => /\ BadStore <=> ENABLED store_open_bail
                        /\ ~BadStore <=> ENABLED store_open)
    /\ [][/\ (~storeOpen /\ storeOpen') =>
                /\ ~BadStore
                /\ StoredConfig(db') = Some(get_config(db))
                /\ StoredConfig(db) = None =>
                      StoredConfig(db') = Some([compacted |-> FALSE, format |-> CURRENT_FORMAT])
          /\ (ret' # ret /\ ret' = OpenErr) =>
                /\ BadStore
                /\ ~storeOpen'
                /\ db' = db
                /\ StoredConfig(db') = StoredConfig(db)
                /\ bulk_import' = bulk_import
                /\ auto_compactions' = auto_compactions]_vars

\* C11 witness: open() has rejected a store whose config is of the current
\* format, for the rows in the anonymous column family.
C11_Witness ==
    /\ ret = OpenErr
    /\ ~storeOpen
    /\ db.default_cf # {}
    /\ StoredConfig(db) = Some([compacted |-> TRUE, format |-> CURRENT_FORMAT])

\* C16: a write() of the batch the write() before it wrote leaves the store
\* as it was: every family holds the same keys with the same values, the
\* tip is the same, and scans and read_headers() return no key twice.
C16_WriteIdempotent ==
    /\ [][(lastWrite' # lastWrite /\ lastWrite' # None /\ lastWrite'[1].again) =>
            /\ \A cf \in DataCFs : Visible(db', cf) = Visible(db, cf)
            /\ get_tip(db') = get_tip(db)]_vars
    /\ []((lastWrite # None /\ lastWrite[1].again) =>
            /\ NoDuplicates(read_headers(db))
            /\ \A cf \in IndexCFs : \A row \in BatchRows(lastWrite[1].batch, cf) :
                  \A out \in ScanResults(db, cf, SubSeq(row, 1, PrefixLen)) :
                     NoDuplicates(out) /\ row \in Range(out))

\* C16 witness: a batch with header, txid, funding and spending rows, one
\* funding row twice, has been written a second time, in steady state.
C16_Witness ==
    /\ lastWrite # None
    /\ lastWrite[1].again
    /\ \A cf \in DataCFs : BatchRows(lastWrite[1].batch, cf) # {}
    /\ ~NoDuplicates(lastWrite[1].batch.funding_rows)
    /\ ~bulk_import

\* C18: no step of flush() changes the indexed data: every family reads the
\* same keys and values, the tip included, before and after it.  A flush()
\* that found config.compacted true compacts nothing and leaves the config,
\* in memory and on disk, and the phase as they were.
C18_FlushKeepsData ==
    /\ [][(flush' # flush /\ storeOpen /\ storeOpen') =>
            /\ \A cf \in DataCFs : Visible(db', cf) = Visible(db, cf)
            /\ get_tip(db') = get_tip(db)]_vars
    /\ [][(flush.pc # "idle" /\ flush.config[1].compacted /\ storeOpen') =>
            /\ flush'.pc \in {"flush_cf", "idle"}
            /\ flush'.compacted = {}
            /\ get_config(db') = get_config(db)
            /\ PersistedConfig' = PersistedConfig
            /\ bulk_import' = bulk_import
            /\ auto_compactions' = auto_compactions]_vars

\* C18 witness: a flush() of a compacted store has flushed the config and
\* headers families and is about to flush the txid rows a write() left in
\* the memtable.
C18_Witness ==
    /\ flush.pc = "flush_cf"
    /\ flush.i = 3
    /\ flush.config[1].compacted
    /\ lastWrite # None
    /\ DOMAIN db.mem[HEADERS_CF] = {}
    /\ DOMAIN db.mem[TXID_CF] # {}

\* C19: while a DBStore exists and no flush() is running, bulk_import is
\* true exactly when the stored config says compacted = false; and no
\* write() runs without the write-ahead log or unsynced on a store whose
\* config on disk says compacted = true.
C19_PhaseAgreesWithConfig ==
    /\ []((storeOpen /\ flush.pc = "idle") =>
            /\ bulk_import <=> ~get_config(db).compacted
            /\ bulk_import <=> ~PersistedConfig.compacted)
    /\ [][(lastWrite' # lastWrite /\ lastWrite' # None /\ PersistedConfig.compacted) =>
            (~lastWrite'[1].opts.disable_wal /\ lastWrite'[1].opts.sync)]_vars

\* C19 witness: a store found compacted by open() has been written to, with
\* the write-ahead log and synchronously.
C19_Witness ==
    /\ storeOpen
    /\ flush.pc = "idle"
    /\ hist.opened_compacted
    /\ ~bulk_import
    /\ lastWrite # None
    /\ lastWrite[1].opts.sync

\* No update of the client's Status is under way.
StatusAtRest == status # None /\ call.op \notin {"subscribe", "update_status"}

\* C12: after any calls of sync and update_status, failed ones included, no
\* txid is both in the confirmed and in the mempool history of a Status, and
\* get_history lists no transaction twice.
C12_NoTxidTwice ==
    StatusAtRest =>
        /\ \A i \in 1..Len(status[1].confirmed), j \in 1..Len(status[1].mempool) :
              status[1].confirmed[i].txid # status[1].mempool[j].txid
        /\ NoDuplicates(get_history(status[1]))

\* C13: whatever calls of subscribe, sync and update_status succeeded or
\* failed, the txid of every outpoint status.get_unspent returns is in the
\* tx cache, and get_balance has not panicked for a missing tx.
C13_UnspentAreCached ==
    /\ StatusAtRest => \A o \in get_unspent(status[1], chain) : o.txid \in tx_cache
    /\ (ret # None /\ ret[1].op = "get_balance") => ~ret[1].panic

\* C13 witness: get_balance has summed the unspent output of a Status with
\* two confirmed entries, the mempool holding a transaction.
C13_Witness ==
    /\ ret # None
    /\ ret[1].op = "get_balance"
    /\ ret[1].val >= 1
    /\ Len(status[1].confirmed) >= 2
    /\ mempool # {}

\* C14: the block get_blockhash_by_txid(txid) returns holds a transaction
\* whose txid is txid.
C14_BlockHoldsTxid ==
    (ret # None /\ ret[1].op = "get_blockhash_by_txid" /\ ret[1].val # None) =>
        Txid(ret[1].val[1]) = ret[1].txid

\* The positions of a call at which it waits for the node.
NetworkPcs == {"index", "mempool", "sync"}

\* C15: no call holds the lock of the tx cache while it waits for the node:
\* update_status takes the write lock after status.sync has returned, and
\* get_balance and get_cached_tx, which take the read lock, never wait.
C15_NoLockAcrossNetwork ==
    /\ call.pc \in NetworkPcs => call.lock = "none"
    /\ call.lock = "write" => (call.op \in {"subscribe", "update_status"} /\ call.pc = "extend")
    /\ call.lock = "read" => call.op \in {"get_balance", "get_cached_tx"}

\* C15 witness: update_status holds the write lock, with the transactions a
\* status.sync fetched in hand.
C15_Witness ==
    /\ call.op = "update_status"
    /\ call.lock = "write"
    /\ call.txs # {}

\* C17: update_status returns Ok(true) exactly when the entry sequence of
\* the Status, confirmed then mempool, is not the one it was before the
\* call, and Ok(false) exactly when it is.
C17_ChangedIffEntriesDiffer ==
    (ret # None /\ ret[1].op = "update_status" /\ ret[1].val # "Err") =>
        /\ ret[1].val = "Ok(true)" <=> ret[1].before # ret[1].after
        /\ ret[1].val = "Ok(false)" <=> ret[1].before = ret[1].after

\* C17 witness: update_status has returned Ok(true) for a history of the
\* same length as before, an entry having moved from mempool to confirmed.
C17_Witness ==
    /\ ret # None
    /\ ret[1].op = "update_status"
    /\ ret[1].val = "Ok(true)"
    /\ Len(ret[1].before) = Len(ret[1].after)
    /\ Len(ret[1].after) >= 1

\* C20: no step removes a txid from the tx cache, and the return of an
\* update_status or subscribe whose status.sync failed adds none.
C20_CacheOnlyGrows ==
    /\ [][tx_cache \subseteq tx_cache']_vars
    /\ [][(call.pc = "sync" /\ call'.pc = "idle") =>
            (ret'[1].val = "Err" /\ tx_cache' = tx_cache)]_vars

\* C20 witness: an update_status has failed with two transactions cached.
C20_Witness ==
    /\ ret # None
    /\ ret[1].op = "update_status"
    /\ ret[1].val = "Err"
    /\ Cardinality(tx_cache) >= 2

====
